---------------------------- MODULE Spec2Model ----------------------------
(***************************************************************************)
(* A model of the ray tracer's rendering pipeline: Vector algebra          *)
(* (vector.rs), Sphere::ray_intersect (sphere.rs) and Scene::render with   *)
(* its helpers (scene.rs).                                                 *)
(*                                                                         *)
(* Floating-point numbers are modelled on a decimal fixed-point grid: the  *)
(* integer n stands for the real n / Scale.  Every product, quotient and   *)
(* square root is rounded toward zero to the grid, so rounding is part of  *)
(* the model, as it is part of f32/f64 arithmetic.                         *)
(***************************************************************************)
EXTENDS Integers, Sequences, FiniteSets, TLC

\* Grid resolution: 10^-6, one decade finer than T_PRECISION.
Scale == 1000 * 1000

\* Scale = Limb * Limb: operands are split in two limbs so that no
\* intermediate product leaves the 32-bit range of TLC's integers.
Limb == Scale \div 1000

Abs(x) == IF x < 0 THEN -x ELSE x

Sign(x) == IF x < 0 THEN -1 ELSE 1

\* The product of x1 * Limb + x0 and y1 * Limb + y0, divided by Scale.
MulLimbs(x1, x0, y1, y0) ==
  x1 * y1 + (x1 * y0) \div Limb + (x0 * y1) \div Limb
    + (((x1 * y0) % Limb) + ((x0 * y1) % Limb) + ((x0 * y0) \div Limb)) \div Limb

MulAbs(ax, ay) == MulLimbs(ax \div Limb, ax % Limb, ay \div Limb, ay % Limb)

\* x * y on the grid: floor(|x| * |y| / Scale) with the sign of the product.
Fmul(x, y) == Sign(x) * Sign(y) * MulAbs(Abs(x), Abs(y))

\* k further decimal digits of rem / y, for 0 <= rem < y.
RECURSIVE DivDigits(_, _, _, _)
DivDigits(rem, y, k, acc) ==
  IF k = 0 THEN acc
  ELSE DivDigits((rem * 10) % y, y, k - 1, (acc * 10) + ((rem * 10) \div y))

DivAbs(ax, ay) == ((ax \div ay) * Scale) + DivDigits(ax % ay, ay, 6, 0)

\* x / y on the grid: floor(|x| * Scale / |y|) with the sign of the quotient.
Fdiv(x, y) == Sign(x) * Sign(y) * DivAbs(Abs(x), Abs(y))

\* Largest r in lo..hi with r * r <= x (integer square root by bisection).
RECURSIVE IsqrtSearch(_, _, _)
IsqrtSearch(x, lo, hi) ==
  IF lo >= hi THEN lo
  ELSE LET mid == (lo + hi + 1) \div 2
       IN  IF mid * mid <= x THEN IsqrtSearch(x, mid, hi)
           ELSE IsqrtSearch(x, lo, mid - 1)

\* Largest d in lo..hi with (r1 * Limb + d)^2 <= (r1 * r1) * Scale + rest * Limb.
RECURSIVE FracSearch(_, _, _, _)
FracSearch(r1, rest, lo, hi) ==
  IF lo >= hi THEN lo
  ELSE LET mid == (lo + hi + 1) \div 2
       IN  IF (2 * r1 * mid) + ((mid * mid + Limb - 1) \div Limb) <= rest
           THEN FracSearch(r1, rest, mid, hi)
           ELSE FracSearch(r1, rest, lo, mid - 1)

SqrtFrom(x, r1) == (r1 * Limb) + FracSearch(r1, (x - r1 * r1) * Limb, 0, Limb - 1)

\* sqrt(x) on the grid: floor(sqrt(x * Scale)), for x >= 0.
Fsqrt(x) == SqrtFrom(x, IsqrtSearch(x, 0, 46340))

\* x.powf(n) for a natural exponent n.
RECURSIVE Fpow(_, _)
Fpow(x, n) == IF n = 0 THEN Scale ELSE Fmul(Fpow(x, n - 1), x)

\* Option<T>: None is the empty sequence, Some(v) the one-element sequence.
None == << >>

Some(v) == << v >>

Unwrap(o) == o[1]

---------------------------------------------------------------------------
(* vector.rs: Vector(x, y, z) is the triple <<x, y, z>>.                   *)

Vector(a, b, c) == << a, b, c >>

dot(u, v) == Fmul(u[1], v[1]) + Fmul(u[2], v[2]) + Fmul(u[3], v[3])

squared_length(v) == dot(v, v)

length(v) == Fsqrt(squared_length(v))

\* fn u inside to_u8: clamp, then (f * 255.9) as i32 as u8.
u8(f) ==
  IF f < 0 THEN 0
  ELSE IF f >= Scale THEN 255
  ELSE (Fmul(f, 255900000)) \div Scale

to_u8(v) == << u8(v[1]), u8(v[2]), u8(v[3]) >>

neg(v) == Vector(-v[1], -v[2], -v[3])

add(u, v) == Vector(u[1] + v[1], u[2] + v[2], u[3] + v[3])

sub(u, v) == Vector(u[1] - v[1], u[2] - v[2], u[3] - v[3])

\* impl Mul<Vector> for f64
mul(f, v) == Vector(Fmul(f, v[1]), Fmul(f, v[2]), Fmul(f, v[3]))

\* impl Mul<Vector> for Vector
mul_vec(u, v) == Vector(Fmul(u[1], v[1]), Fmul(u[2], v[2]), Fmul(u[3], v[3]))

\* impl Div<f64> for Vector: (1.0 / r) * self
div(v, r) == mul(Fdiv(Scale, r), v)

to_unit_vector(v) == div(v, length(v))

---------------------------------------------------------------------------
(* ray.rs                                                                  *)

RayNew(o, d) == [origin |-> o, direction |-> d]

get_ray(o, d) == RayNew(o, to_unit_vector(d))

line_to_p(r, t) == add(r.origin, mul(t, r.direction))

---------------------------------------------------------------------------
(* sphere.rs                                                               *)

T_PRECISION == 10

Hit(t, p, normal, material) ==
  [t |-> t, p |-> p, normal |-> normal, material |-> material]

Sphere(center, radius, material) ==
  [center |-> center, radius |-> radius, material |-> material]

\* The two roots (-hb +/- sqrt(discriminant)) / 2.0 of lines 37-38.
Root1(hb, discriminant) == Fdiv(-hb + Fsqrt(discriminant), 2 * Scale)

Root2(hb, discriminant) == Fdiv(-hb - Fsqrt(discriminant), 2 * Scale)

SmallerRoot(t1, t2) == IF t1 > t2 THEN t2 ELSE t1

\* Lines 30-34.
HalfB(sphere, r) == dot(sub(r.origin, sphere.center), r.direction)

DiscriminantOf(a, hb, c) == Fmul(hb, hb) - Fmul(a, c)

Discriminant(sphere, r) ==
  DiscriminantOf(dot(r.direction, r.direction),
                 HalfB(sphere, r),
                 squared_length(sub(r.origin, sphere.center))
                   - Fmul(sphere.radius, sphere.radius))

\* Lines 47-54.
HitAt(sphere, t, intersection) ==
  Some(Hit(t, intersection,
           div(sub(intersection, sphere.center), sphere.radius),
           sphere.material))

\* Accept without the precision test of line 46.
AcceptAnyPositive(sphere, r, t) == HitAt(sphere, t, line_to_p(r, t))

\* Lines 46-55.
Accept(sphere, r, t) ==
  IF t >= T_PRECISION THEN HitAt(sphere, t, line_to_p(r, t)) ELSE None

\* Lines 40-56.
Candidate(sphere, r, t1, t2) ==
  IF (t1 > 0) /\ (t2 > 0) THEN Accept(sphere, r, SmallerRoot(t1, t2)) ELSE None

\* Lines 36-59.
Roots(sphere, r, hb, discriminant) ==
  IF discriminant > 0
  THEN Candidate(sphere, r, Root1(hb, discriminant), Root2(hb, discriminant))
  ELSE None

ray_intersect(sphere, r) ==
  Roots(sphere, r, HalfB(sphere, r), Discriminant(sphere, r))

---------------------------------------------------------------------------
(* scene.rs: constants                                                     *)

REFLECTION_DEPTH == 3

OFFSET_AMOUNT == 30000

BACKGROUND_COLOR == Vector(80000, 82000, 80000)

LIGHT_RADIUS == 300000

LIGHT_SAMPLES == 2

LIGHT_COLOR == Vector(Scale, Scale, Scale)

LIGHT_POWER == 200 * Scale

RGB(r, g, b) == << r, g, b >>

---------------------------------------------------------------------------
(* pixel.rs                                                                *)

PixelNew(px, py) == [pos |-> Vector(px, py, -Scale), color |-> None, n |-> 0]

\* Incremental mean of one channel after folding sample s as the n-th one.
AvgChannel(old, s, n) == old + Sign(s - old) * (Abs(s - old) \div n)

AvgWith(c, rgb, n) ==
  RGB(AvgChannel(c[1], rgb[1], n), AvgChannel(c[2], rgb[2], n),
      AvgChannel(c[3], rgb[3], n))

avg_colors(pixel, rgb) ==
  IF pixel.color = None THEN rgb
  ELSE AvgWith(Unwrap(pixel.color), rgb, pixel.n + 1)

---------------------------------------------------------------------------
(* scene.rs: Scene::new and the pure helpers of Scene                      *)

\* Scene::new, lines 36-47: the grid of pixels, row i (1..h), column j (1..w)
\* holding the pixel of the 0-based indices i - 1, j - 1.
PixelsOf(h, w, y_size, x_size) ==
  [i \in 1..h |->
    [j \in 1..w |->
      PixelNew(Fdiv((j - 1) * Scale - x_size, w * Scale),
               Fdiv((i - 1) * Scale - y_size, h * Scale))]]

ScenePixels(h, w) ==
  PixelsOf(h, w, Fdiv(h * Scale, 2 * Scale), Fdiv(w * Scale, 2 * Scale))

reflected_vector(hit) ==
  sub(hit.p, mul(Fmul(2 * Scale, dot(hit.p, hit.normal)), hit.normal))

\* KeepMin with <= for <: the last sphere seen wins a tie.
KeepMinOrEqual(min, hit) ==
  IF hit = None THEN min
  ELSE IF min = None THEN hit
  ELSE IF Unwrap(hit).t <= Unwrap(min).t THEN hit
  ELSE min

\* The body of the for loop of check_hits, lines 226-233.
KeepMin(min, hit) ==
  IF hit = None THEN min
  ELSE IF min = None THEN hit
  ELSE IF Unwrap(hit).t < Unwrap(min).t THEN hit
  ELSE min

RECURSIVE CheckHitsFrom(_, _, _, _)
CheckHitsFrom(objs, ray, i, min) ==
  IF i > Len(objs) THEN min
  ELSE CheckHitsFrom(objs, ray, i + 1, KeepMin(min, ray_intersect(objs[i], ray)))

check_hits(objs, ray) == CheckHitsFrom(objs, ray, 1, None)

\* Lines 176-193.
Shadow(light_hit, obj_to_light) ==
  IF light_hit = None THEN None
  ELSE IF length(obj_to_light) < length(Unwrap(light_hit).p) THEN None
  ELSE light_hit

trace_ray(objs, hit, light) ==
  Shadow(check_hits(objs, RayNew(add(hit.p, mul(OFFSET_AMOUNT, hit.normal)),
                                 to_unit_vector(light))),
         to_unit_vector(sub(light, hit.p)))

\* Lines 199-200.
Distance(len) == Fmul(len, len)

\* Lines 203, 206-207.
Lambertian(cos) == IF cos > 0 THEN cos ELSE 0

\* Lines 209-212.
SpecularAngle(p, obj_to_light) ==
  dot(to_unit_vector(add(obj_to_light, neg(to_unit_vector(p.p)))), p.normal)

\* Lines 204, 206, 213.
Specular(p, obj_to_light, cos) ==
  IF cos > 0 THEN Fpow(SpecularAngle(p, obj_to_light), p.material.shine) ELSE 0

\* Lines 216-219.
Shade(p, distance, lambertian, specular) ==
  add(add(p.material.ambient,
          div(mul_vec(mul(Fmul(LIGHT_POWER, lambertian), LIGHT_COLOR),
                      p.material.diffuse), distance)),
      div(mul(Fmul(LIGHT_POWER, specular), LIGHT_COLOR), distance))

\* Lines 201-219.
ShadeToward(p, distance, obj_to_light, cos) ==
  Shade(p, distance, Lambertian(cos), Specular(p, obj_to_light, cos))

\* Lines 198-219.
ShadeFrom(p, distance, obj_to_light) ==
  ShadeToward(p, distance, obj_to_light, dot(obj_to_light, p.normal))

reflection_model(p, light) ==
  ShadeFrom(p, Distance(length(sub(light, p.p))), to_unit_vector(sub(light, p.p)))

\* The light point of lines 75-80, from the random vector p.
LightPoint(p) == mul(LIGHT_RADIUS, to_unit_vector(p))

\* make_png, lines 241-254: the row-major buffer handed to the encoder.
\* PushedColor with the background color for a pixel that has no color.
PushedColorBackground(c) ==
  IF c = None THEN to_u8(BACKGROUND_COLOR) ELSE Unwrap(c)

\* Lines 245-252.
PushedColor(c) == IF c = None THEN RGB(0, 0, 0) ELSE Unwrap(c)

RenderPixels(px, h, w) ==
  [k \in 1..(h * w) |->
     PushedColor(px[((k - 1) \div w) + 1][((k - 1) % w) + 1].color)]

---------------------------------------------------------------------------
(* Inputs: the scenes the renderer is run on.                              *)

MaxHeight == 2

MaxWidth == 2

MaxLights == 2

Material(ambient, diffuse, reflectiveness, shine) ==
  [ambient |-> ambient, diffuse |-> diffuse,
   reflectiveness |-> reflectiveness, shine |-> shine]

Red == Material(Vector(100000, 0, 0), Vector(500000, 500000, 500000), 500000, 2)

Green == Material(Vector(0, 100000, 0), Vector(300000, 300000, 300000), 250000, 3)

\* A sphere in front of the camera and one behind it.
FrontSphere == Sphere(Vector(-500000, -500000, -Scale), 300000, Red)

BackSphere == Sphere(Vector(0, 0, 400000), 300000, Green)

ObjectLists ==
  { << >>, << FrontSphere >>, << FrontSphere, BackSphere >>,
    << BackSphere, FrontSphere >> }

\* The i-th light of a scene.
LightAt(i) == Vector(0, 3 * Scale, (i - 1) * Scale)

LightLists == { [i \in 1..n |-> LightAt(i)] : n \in 0..MaxLights }

\* Camera::get_random_vector: the points the camera may return.
CameraSamples == { Vector(0, 0, 0), Vector(10000, 0, 0) }

\* rand::random::<f32>() three times: the vectors p of lines 75-79.
RandomVectors == { Vector(500000, 500000, 500000), Vector(0, 0, 500000) }

---------------------------------------------------------------------------
(* Scene::render as a state machine                                        *)

VARIABLES
  camera, objects, height, width, pixels, lights,   \* the fields of Scene
  y, x, light, sample,                              \* loop indices (0-based)
  color, direction, origin,                         \* locals of lines 63-65
  reflection, n_reflections, light_point,           \* locals of lines 71-80
  initial_hit, last_hit,                            \* locals of lines 84-109
  pc,                                               \* position in render
  camera_calls, searches, png_calls, image,         \* observations
  probes                                            \* results of the probe run

scene_vars == << camera, objects, height, width, lights >>

loop_vars == << y, x, light, sample >>

local_vars ==
  << color, direction, origin, reflection, n_reflections, light_point,
     initial_hit, last_hit >>

observed_vars == << camera_calls, searches, png_calls, image >>

vars == << scene_vars, pixels, loop_vars, local_vars, pc, observed_vars, probes >>

\* The state every run starts from, whatever the scene.
InitLocals ==
  /\ y = 0 /\ x = 0 /\ light = 0 /\ sample = 0
  /\ color = None
  /\ reflection = Scale /\ n_reflections = 0 /\ light_point = Vector(0, 0, 0)
  /\ initial_hit = None /\ last_hit = None
  /\ camera_calls = 0 /\ searches = 0 /\ png_calls = 0 /\ image = << >>
  /\ probes = << >>

\* The locals of lines 64-65 before the first pixel is entered.
InitRay == direction = Vector(0, 0, 0) /\ origin = Vector(0, 0, 0)

\* Scene::new, lines 29-57, followed by the call of render.
Init ==
  /\ camera = [samples |-> CameraSamples]
  /\ objects \in ObjectLists
  /\ height \in 1..MaxHeight
  /\ width \in 1..MaxWidth
  /\ pixels = ScenePixels(height, width)
  /\ lights \in LightLists
  /\ pc = "pixel"
  /\ InitRay
  /\ InitLocals

\* NextPixel with the image written as soon as the first row is over.
NextPixelOneRow ==
  IF x + 1 < width THEN /\ x' = x + 1 /\ y' = y /\ pc' = "pixel"
  ELSE /\ x' = x /\ y' = y /\ pc' = "png"

\* Where the loops go once the work of pixel (y, x) is over: lines 60-61, 156.
NextPixel ==
  IF x + 1 < width THEN /\ x' = x + 1 /\ y' = y /\ pc' = "pixel"
  ELSE IF y + 1 < height THEN /\ x' = 0 /\ y' = y + 1 /\ pc' = "pixel"
  ELSE /\ x' = x /\ y' = y /\ pc' = "png"

\* Lines 62-65: the head of the body of the pixel loops.
BeginPixel ==
  /\ pc = "pixel"
  /\ color' = None
  /\ direction' = pixels[y + 1][x + 1].pos
  /\ \E o \in camera.samples : origin' = o
  /\ camera_calls' = camera_calls + 1
  /\ IF Len(lights) > 0
     THEN /\ light' = 0 /\ sample' = 0 /\ pc' = "sample"
          /\ UNCHANGED << y, x >>
     ELSE /\ NextPixel
          /\ UNCHANGED << light, sample >>
  /\ UNCHANGED << scene_vars, pixels, reflection, n_reflections, light_point,
                  initial_hit, last_hit, searches, png_calls, image, probes >>

\* Lines 71-80: the head of the body of the light-sample loop.
BeginSample ==
  /\ pc = "sample"
  /\ reflection' = Scale
  /\ n_reflections' = 0
  /\ \E p \in RandomVectors : light_point' = LightPoint(p)
  /\ searches' = 0
  /\ pc' = IF 0 < REFLECTION_DEPTH THEN "bounce" ELSE "fold"
  /\ UNCHANGED << scene_vars, pixels, loop_vars, color, direction, origin,
                  initial_hit, last_hit, camera_calls, png_calls, image, probes >>

\* Lines 86-109: the color sampled at this bounce.
SampledColor(initial, light_hit, l) ==
  IF initial = None THEN BACKGROUND_COLOR
  ELSE IF light_hit = None THEN reflection_model(Unwrap(initial), l)
  ELSE Vector(0, 0, 0)

\* Lines 88, 98, 104: the hit the rest of the iteration works with.
LastHit(initial, light_hit) ==
  IF initial = None THEN None
  ELSE IF light_hit = None THEN initial
  ELSE light_hit

\* Lines 112-121 and 129-136: the accumulated color after this bounce.
Accumulate(c, refl, sampled_color, last) ==
  IF last # None
  THEN IF c # None THEN Some(add(Unwrap(c), mul(refl, sampled_color)))
       ELSE Some(sampled_color)
  ELSE IF c # None THEN c
       ELSE Some(sampled_color)

\* Line 124: the origin of the next ray.
NextOrigin(k) == add(k.p, mul(OFFSET_AMOUNT, to_unit_vector(k.normal)))

\* LoopGoesOn with <= for <: one bounce too many.
LoopGoesOnInclusive(last, n) == last # None /\ n <= REFLECTION_DEPTH

\* Line 82 after line 122, and the break of line 137.
LoopGoesOn(last, n) == last # None /\ n < REFLECTION_DEPTH

\* Lines 110-139: the second match of the loop body.
BounceOn(initial, sampled_color, last) ==
  /\ initial_hit' = initial
  /\ last_hit' = last
  /\ searches' = searches + 1
  /\ color' = Accumulate(color, reflection, sampled_color, last)
  /\ IF last # None
     THEN /\ n_reflections' = n_reflections + 1
          /\ reflection' = Fmul(reflection, Unwrap(last).material.reflectiveness)
          /\ origin' = NextOrigin(Unwrap(last))
          /\ direction' = reflected_vector(Unwrap(last))
     ELSE UNCHANGED << n_reflections, reflection, origin, direction >>
  /\ pc' = IF LoopGoesOn(last, n_reflections') THEN "bounce" ELSE "fold"

\* Lines 86-109: the first match of the loop body.
BounceWith(initial, light_hit) ==
  BounceOn(initial, SampledColor(initial, light_hit, lights[light + 1]),
           LastHit(initial, light_hit))

\* Line 93.
LightHit(initial) ==
  IF initial = None THEN None
  ELSE trace_ray(objects, Unwrap(initial), light_point)

\* Lines 83-139: one iteration of the while loop.
Bounce ==
  /\ pc = "bounce"
  /\ BounceWith(check_hits(objects, get_ray(origin, direction)),
                LightHit(check_hits(objects, get_ray(origin, direction))))
  /\ UNCHANGED << scene_vars, pixels, loop_vars, light_point, camera_calls,
                  png_calls, image, probes >>

\* Lines 142-150: the color folded into the running average of the pixel.
FoldedColor(c) == IF c # None THEN to_u8(Unwrap(c)) ELSE RGB(0, 0, 0)

\* FoldTarget with the indices dropped: every sample lands in pixel (0, 0).
FoldTargetFirst(py, px) == << 1, 1 >>

\* Lines 145, 148: the pixel whose color cell is written.
FoldTarget(py, px) == << py + 1, px + 1 >>

\* Lines 145, 148: the grid after the assignment to the color cell.
Folded(grid, at, rgb) ==
  [grid EXCEPT ![at[1]][at[2]] =
     [@ EXCEPT !.color = Some(avg_colors(grid[at[1]][at[2]], rgb)),
               !.n = @ + 1]]

\* Lines 142-151, then the loop heads of lines 70, 67, 61, 60.
FoldSample ==
  /\ pc = "fold"
  /\ pixels' = Folded(pixels, FoldTarget(y, x), FoldedColor(color))
  /\ IF sample + 1 < LIGHT_SAMPLES
     THEN /\ sample' = sample + 1 /\ pc' = "sample"
          /\ UNCHANGED << y, x, light >>
     ELSE IF light + 1 < Len(lights)
     THEN /\ light' = light + 1 /\ sample' = 0 /\ pc' = "sample"
          /\ UNCHANGED << y, x >>
     ELSE /\ NextPixel
          /\ UNCHANGED << light, sample >>
  /\ UNCHANGED << scene_vars, local_vars, observed_vars, probes >>

\* Line 156: make_png, which hands the buffer to the image writer.
MakePng ==
  /\ pc = "png"
  /\ image' = RenderPixels(pixels, height, width)
  /\ png_calls' = png_calls + 1
  /\ pc' = "done"
  /\ UNCHANGED << scene_vars, pixels, loop_vars, local_vars, camera_calls,
                  searches, probes >>

Next == BeginPixel \/ BeginSample \/ Bounce \/ FoldSample \/ MakePng

Spec == Init /\ [][Next]_vars

---------------------------------------------------------------------------
(* The intersection routines on their own: Init draws a ray and a list of  *)
(* spheres, Probe applies Sphere::ray_intersect to every sphere of the     *)
(* list and Scene::check_hits to the list.                                 *)

MaxObjects == 3

\* BackSphere lies on the +z side of the probe origins, the others on the
\* -z side: NearSphere and FarSphere touch at (0, 0, 0), DeepSphere lies
\* beyond them.
NearSphere == Sphere(Vector(0, 0, -300000), 300000, Red)

FarSphere == Sphere(Vector(0, 0, -600000), 600000, Green)

DeepSphere == Sphere(Vector(0, 0, -2 * Scale), 500000, Green)

ProbeSpheres == { NearSphere, FarSphere, DeepSphere, BackSphere }

ProbeObjectLists ==
  UNION { [1..n -> ProbeSpheres] : n \in 0..MaxObjects }

\* Origins far from, just outside (5 and 20 grid steps from the surface),
\* on, and inside NearSphere, and origins whose ray along -z misses or
\* grazes it.
ProbeOrigins ==
  { Vector(0, 0, Scale), Vector(0, 0, 20), Vector(0, 0, 5), Vector(0, 0, 0),
    Vector(0, 0, -100000), Vector(300000, 0, Scale), Vector(500000, 0, Scale),
    Vector(100000, 100000, 500000) }

ProbeDirections ==
  { Vector(0, 0, -Scale), Vector(0, 0, Scale), Vector(0, 0, -2 * Scale) }

ProbeInit ==
  /\ camera = [samples |-> CameraSamples]
  /\ objects \in ProbeObjectLists
  /\ height = 1
  /\ width = 1
  /\ pixels = ScenePixels(height, width)
  /\ lights = << >>
  /\ origin \in ProbeOrigins
  /\ direction \in ProbeDirections
  /\ pc = "probe"
  /\ InitLocals

Probe ==
  /\ pc = "probe"
  /\ probes' = [i \in 1..Len(objects) |->
                  ray_intersect(objects[i], RayNew(origin, direction))]
  /\ initial_hit' = check_hits(objects, RayNew(origin, direction))
  /\ pc' = "probed"
  /\ UNCHANGED << scene_vars, pixels, loop_vars, color, direction, origin,
                  reflection, n_reflections, light_point, last_hit,
                  observed_vars >>

ProbeNext == Probe

ProbeSpec == ProbeInit /\ [][ProbeNext]_vars

---------------------------------------------------------------------------
(* Properties                                                              *)

Black == RGB(0, 0, 0)

Samples == Len(lights) * LIGHT_SAMPLES

\* What Sphere::ray_intersect is to compute from the ray of the probe run
\* and the i-th sphere: a, half_b, c, the discriminant and the two roots.
ProbeOc(i) == sub(origin, objects[i].center)

ProbeHb(i) == dot(ProbeOc(i), direction)

ProbeDisc(i) ==
  Fmul(ProbeHb(i), ProbeHb(i))
    - Fmul(dot(direction, direction),
           dot(ProbeOc(i), ProbeOc(i)) - Fmul(objects[i].radius, objects[i].radius))

ProbeT1(i) == Fdiv(-ProbeHb(i) + Fsqrt(ProbeDisc(i)), 2 * Scale)

ProbeT2(i) == Fdiv(-ProbeHb(i) - Fsqrt(ProbeDisc(i)), 2 * Scale)

ProbeMin(i) == IF ProbeT1(i) < ProbeT2(i) THEN ProbeT1(i) ELSE ProbeT2(i)

ProbeAccepted(i) ==
  /\ ProbeDisc(i) > 0
  /\ ProbeT1(i) > 0
  /\ ProbeT2(i) > 0
  /\ ProbeMin(i) >= T_PRECISION

ProbeInside(i) ==
  dot(ProbeOc(i), ProbeOc(i)) < Fmul(objects[i].radius, objects[i].radius)

\* C1, as claimed: with no lights, every pixel handed to the image writer is
\* the background color converted to 8 bits.
C1_NoLightsRendersBackground ==
  (pc = "done" /\ lights = << >>) =>
    \A k \in DOMAIN image : image[k] = to_u8(BACKGROUND_COLOR)

\* C1, amended: with no lights, the image writer is handed height * width
\* pixels and every one of them is black, RGB (0, 0, 0), whether or not the
\* camera ray of the pixel hits a sphere.
C1_NoLightsRendersBlack ==
  (pc = "done" /\ lights = << >>) =>
    /\ Len(image) = height * width
    /\ \A k \in DOMAIN image : image[k] = Black

\* A render without lights is over, of a grid in which the camera ray of one
\* pixel hits a sphere and that of another pixel hits nothing.
C1_Witness ==
  /\ pc = "done" /\ lights = << >>
  /\ \E i \in 1..height : \E j \in 1..width : \E o \in camera.samples :
       check_hits(objects, get_ray(o, pixels[i][j].pos)) # None
  /\ \E i \in 1..height : \E j \in 1..width : \E o \in camera.samples :
       check_hits(objects, get_ray(o, pixels[i][j].pos)) = None

\* C2, as claimed: the camera is sampled lights.len() * LIGHT_SAMPLES times
\* for each pixel, so height * width times that often in a whole render.
C2_CameraSampledPerLightSample ==
  pc \in {"png", "done"} => camera_calls = height * width * Samples

\* C3: the image writer is invoked at most once, exactly once when render
\* is over, only after every pixel has had all its lights.len() *
\* LIGHT_SAMPLES samples folded, and the grid is not written afterwards (it
\* stays the buffer the writer was given).
C3_WriterOnceAfterAllPixels ==
  /\ png_calls \in {0, 1}
  /\ png_calls = 1 <=> pc = "done"
  /\ pc \in {"png", "done"} =>
       \A i \in 1..height : \A j \in 1..width : pixels[i][j].n = Samples
  /\ png_calls = 1 => image = RenderPixels(pixels, height, width)

C3_Witness ==
  /\ pc = "done" /\ png_calls = 1
  /\ height * width > 1 /\ Len(lights) > 1
  /\ \E k \in DOMAIN image : image[k] # Black

\* C4: render changes neither the camera, the spheres, the lights nor the
\* dimensions, and a step changes at most the color cell of the pixel
\* (y, x) the loops are at: every other pixel, and every position, stays.
C4_OnlyOwnPixelWritten ==
  [][/\ camera' = camera /\ objects' = objects /\ lights' = lights
     /\ height' = height /\ width' = width
     /\ \A i \in 1..height : \A j \in 1..width :
          /\ pixels'[i][j].pos = pixels[i][j].pos
          /\ pixels'[i][j] # pixels[i][j] => (i = y + 1 /\ j = x + 1)]_vars

C4_Witness ==
  /\ pc = "sample" /\ y = 1 /\ x = 0 /\ sample = 1
  /\ pixels[2][1].n = 1
  /\ pixels[1][1].n = Samples /\ pixels[1][1].color # Some(Black)

\* C5: ray_intersect returns a Hit exactly when the discriminant is
\* positive, both roots are positive and the smaller root is at least
\* T_PRECISION; the Hit carries the smaller root; a ray with discriminant
\* <= 0 and a ray starting inside the sphere get no Hit.
C5_IntersectIffAccepted ==
  pc = "probed" =>
    \A i \in 1..Len(objects) :
      /\ probes[i] # None <=> ProbeAccepted(i)
      /\ probes[i] # None => Unwrap(probes[i]).t = ProbeMin(i)
      /\ ProbeDisc(i) <= 0 => probes[i] = None
      /\ ProbeInside(i) => probes[i] = None

\* A ray whose both roots are positive and below T_PRECISION is rejected,
\* beside a sphere that is hit.
C5_Witness ==
  /\ pc = "probed"
  /\ \E i \in 1..Len(objects) :
       /\ ProbeDisc(i) > 0 /\ ProbeT1(i) > 0 /\ ProbeT2(i) > 0
       /\ ProbeMin(i) < T_PRECISION
       /\ probes[i] = None
  /\ \E i \in 1..Len(objects) : probes[i] # None

\* C6, as claimed: every (light, light-sample) combination starts its
\* bounce loop from a camera ray, with no accumulated color and a
\* cumulative reflection factor of 1.
C6_SamplesStartFresh ==
  (pc = "bounce" /\ searches = 0) =>
    /\ color = None
    /\ reflection = Scale
    /\ origin \in camera.samples
    /\ direction = pixels[y + 1][x + 1].pos

AccumulatedOrEmpty == IF color = None THEN Vector(0, 0, 0) ELSE Unwrap(color)

\* C7, as claimed: a bounce whose ray hits nothing adds the background
\* color, weighted by the cumulative reflection factor, to the accumulated
\* color, and ends the loop.
C7_MissContributesBackground ==
  [][(pc = "bounce" /\ initial_hit' = None) =>
       /\ color' = Some(add(AccumulatedOrEmpty, mul(reflection, BACKGROUND_COLOR)))
       /\ pc' = "fold"]_vars

\* C8, as claimed: after a bounce that hits an object the ray leaves from
\* the nearest hit of the current ray, and the reflection factor is
\* multiplied by the reflectiveness of that hit's surface.
C8_RayAdvancesFromShadedHit ==
  [][(pc = "bounce" /\ initial_hit' # None) =>
       /\ origin' = NextOrigin(Unwrap(initial_hit'))
       /\ direction' = reflected_vector(Unwrap(initial_hit'))
       /\ reflection' =
            Fmul(reflection, Unwrap(initial_hit').material.reflectiveness)]_vars

\* C9: the bounce loop makes between 1 and REFLECTION_DEPTH nearest-hit
\* searches; it goes on only while every search so far has hit, each hit
\* counting one bounce; it ends at the first miss or with the bounce count
\* at REFLECTION_DEPTH.
C9_BounceLoopBounded ==
  /\ pc = "bounce" =>
       /\ n_reflections = searches
       /\ searches < REFLECTION_DEPTH
       /\ searches > 0 => initial_hit # None
  /\ pc = "fold" =>
       /\ 1 <= searches /\ searches <= REFLECTION_DEPTH
       /\ \/ initial_hit = None /\ n_reflections = searches - 1
          \/ initial_hit # None /\ n_reflections = searches
                                /\ n_reflections = REFLECTION_DEPTH

\* A sample that ends at the depth bound, after one that ended on a miss at
\* its second search.
C9_Witness ==
  /\ pc = "fold" /\ initial_hit # None /\ n_reflections = REFLECTION_DEPTH

\* The spheres of the probe run that the ray intersects, and those among
\* them no other one undercuts.
ProbeHits == { i \in 1..Len(objects) : probes[i] # None }

ProbeNearest ==
  { i \in ProbeHits :
      \A j \in ProbeHits : Unwrap(probes[i]).t <= Unwrap(probes[j]).t }

\* C10: check_hits returns None exactly when no sphere is intersected;
\* otherwise it returns the hit of the first sphere of the list among those
\* of minimal t.
C10_NearestFirstSeen ==
  pc = "probed" =>
    /\ initial_hit = None <=> ProbeHits = {}
    /\ ProbeHits # {} =>
         \E i \in ProbeNearest :
           /\ \A j \in ProbeNearest : i <= j
           /\ initial_hit = probes[i]

\* Two spheres are hit at the same t and their hits differ.
C10_Witness ==
  /\ pc = "probed"
  /\ \E i, j \in ProbeNearest : i < j /\ probes[i] # probes[j]
  /\ \E i \in ProbeHits : i \notin ProbeNearest

=============================================================================
